---------------------------- MODULE Spec2Model ----------------------------
(***************************************************************************)
(* Model of the ICP transport adapter, crates/transport-icp/src/lib.rs:    *)
(* the transport configuration and its setters, the response-size         *)
(* estimator, and request(), which captures the configuration, serializes  *)
(* the packet, issues one call to the EVM RPC canister and maps the       *)
(* outcome to a ResponsePacket or a TransportError.                        *)
(*                                                                         *)
(* Numbers.  max_response_size is a u64 and is modelled by a natural       *)
(* number (the estimator only adds tier values).  call_cycles is a u128;   *)
(* a u128 is written as five limbs in base 10^9, most significant first,   *)
(* so that 60_000_000_000 and u128::MAX are both representable.            *)
(***************************************************************************)
EXTENDS Integers, Sequences, FiniteSets, TLC

VARIABLES
    transport,   \* the IcpTransport value: rpc_service, call_cycles, max_response_size
    calls,       \* the futures returned by request(), one slot per call id
    est_in,      \* estimator harness: the packet handed to estimate_max_response_size
    est_out      \* estimator harness: the value it returned (an Option)

vars == <<transport, calls, est_in, est_out>>

----------------------------------------------------------------------------
(* Bounds *)

MaxBatch == 2    \* longest batch handed to the estimator harness
MaxCalls == 2    \* futures alive at once in the concurrent specification

----------------------------------------------------------------------------
(* Option<T> *)

None == [some |-> FALSE]
Some(v) == [some |-> TRUE, val |-> v]

\* Option::unwrap_or: the default is an already evaluated argument.
UnwrapOr(opt, default) == IF opt.some THEN opt.val ELSE default

----------------------------------------------------------------------------
(* Constants of the crate *)

DEFAULT_CALL_CYCLES == <<0, 0, 0, 60, 0>>     \* 60_000_000_000 as u128 limbs

MAX_RESPONSE_SIZE_SMALL == 1000
MAX_RESPONSE_SIZE_MEDIUM == 2000
MAX_RESPONSE_SIZE_UNKNOWN == 5000

U128_ZERO == <<0, 0, 0, 0, 0>>
\* 340282366920938463463374607431768211455
U128_MAX == <<340, 282366920, 938463463, 374607431, 768211455>>

----------------------------------------------------------------------------
(* Request packets *)

\* A SerializedRequest: the method name of its meta() and its encoded payload.
SerializedRequest(m) ==
    [method |-> m, request |-> "{\"method\":\"" \o m \o "\"}"]

Single(req) == [kind |-> "Single", reqs |-> <<req>>]
Batch(reqs) == [kind |-> "Batch", reqs |-> reqs]

\* Method names of the table of estimate_max_response_size, and three it
\* does not list (one of them the empty name).
TableMethods ==
    { "eth_blockNumber", "eth_getBalance", "eth_chainId", "eth_feeHistory",
      "eth_estimateGas", "eth_gasPrice", "eth_getBlockTransactionCountByHash",
      "eth_getBlockTransactionCountByNumber", "eth_getCode", "eth_getProof",
      "eth_getStorageAt", "eth_getTransactionByBlockHashAndIndex",
      "eth_getTransactionByHash", "eth_getTransactionCount",
      "eth_getUncleCountByBlockHash", "eth_getUncleCountByBlockNumber",
      "eth_maxPriorityFeePerGas", "eth_protocolVersion" }

OtherMethods == { "eth_call", "eth_getLogs", "" }

Methods == TableMethods \cup OtherMethods

SeqsUpTo(S, n) == UNION { [1..k -> S] : k \in 1..n }

\* Packets of the estimator harness: batches are non-empty.
Packets ==
    { Single(SerializedRequest(m)) : m \in Methods }
      \cup { Batch([k \in DOMAIN ms |-> SerializedRequest(ms[k])]) :
                ms \in SeqsUpTo(Methods, MaxBatch) }

NoPacket == [kind |-> "None", reqs |-> <<>>]

----------------------------------------------------------------------------
(* estimate_max_response_size *)

\* The closure max_response_size: the tier of one request's method name.
max_response_size(serialized_request) ==
    CASE serialized_request.method = "eth_blockNumber" -> MAX_RESPONSE_SIZE_SMALL
      [] serialized_request.method = "eth_getBalance" -> MAX_RESPONSE_SIZE_SMALL
      [] serialized_request.method = "eth_chainId" -> MAX_RESPONSE_SIZE_SMALL
      [] serialized_request.method = "eth_feeHistory" -> MAX_RESPONSE_SIZE_MEDIUM
      [] serialized_request.method = "eth_estimateGas" -> MAX_RESPONSE_SIZE_SMALL
      [] serialized_request.method = "eth_gasPrice" -> MAX_RESPONSE_SIZE_SMALL
      [] serialized_request.method = "eth_getBlockTransactionCountByHash" ->
            MAX_RESPONSE_SIZE_SMALL
      [] serialized_request.method = "eth_getBlockTransactionCountByNumber" ->
            MAX_RESPONSE_SIZE_SMALL
      [] serialized_request.method = "eth_getCode" -> MAX_RESPONSE_SIZE_SMALL
      [] serialized_request.method = "eth_getProof" -> MAX_RESPONSE_SIZE_SMALL
      [] serialized_request.method = "eth_getStorageAt" -> MAX_RESPONSE_SIZE_SMALL
      [] serialized_request.method = "eth_getTransactionByBlockHashAndIndex" ->
            MAX_RESPONSE_SIZE_MEDIUM
      [] serialized_request.method = "eth_getTransactionByHash" ->
            MAX_RESPONSE_SIZE_MEDIUM
      [] serialized_request.method = "eth_getTransactionCount" ->
            MAX_RESPONSE_SIZE_SMALL
      [] serialized_request.method = "eth_getUncleCountByBlockHash" ->
            MAX_RESPONSE_SIZE_SMALL
      [] serialized_request.method = "eth_getUncleCountByBlockNumber" ->
            MAX_RESPONSE_SIZE_SMALL
      [] serialized_request.method = "eth_maxPriorityFeePerGas" ->
            MAX_RESPONSE_SIZE_SMALL
      [] serialized_request.method = "eth_protocolVersion" -> MAX_RESPONSE_SIZE_SMALL
      [] OTHER -> MAX_RESPONSE_SIZE_UNKNOWN

\* reqs.iter().map(max_response_size).sum(): a left fold from 0.
RECURSIVE SumSizes(_)
SumSizes(reqs) ==
    IF reqs = <<>> THEN 0
    ELSE SumSizes(SubSeq(reqs, 1, Len(reqs) - 1)) + max_response_size(reqs[Len(reqs)])

\* Mutant: a batch is sized as its first member alone.
estimate_max_response_size_FirstOnly(request_packet) ==
    max_response_size(request_packet.reqs[1])

estimate_max_response_size(request_packet) ==
    IF request_packet.kind = "Single"
    THEN max_response_size(request_packet.reqs[1])
    ELSE SumSizes(request_packet.reqs)

----------------------------------------------------------------------------
(* IcpConfig and IcpTransport *)

IcpConfig_new(rpc_service) ==
    [rpc_service |-> rpc_service, call_cycles |-> None, max_response_size |-> None]

IcpConfig_set_call_cycles(config, call_cycles) ==
    [config EXCEPT !.call_cycles = Some(call_cycles)]

IcpConfig_set_max_response_size(config, size) ==
    [config EXCEPT !.max_response_size = Some(size)]

with_config(config) ==
    [rpc_service |-> config.rpc_service,
     call_cycles |-> config.call_cycles,
     max_response_size |-> config.max_response_size]

\* Every config the builder methods produce from the given values.
Configs(services, cycles, sizes) ==
    LET base == { IcpConfig_new(s) : s \in services }
        withCycles ==
            base \cup { IcpConfig_set_call_cycles(c, v) : c \in base, v \in cycles }
    IN  withCycles \cup
          { IcpConfig_set_max_response_size(c, v) : c \in withCycles, v \in sizes }

\* The getters rpc_service(), call_cycles(), max_response_size(), is_local().
rpc_service_of(t) == t.rpc_service
call_cycles_of(t) == t.call_cycles
max_response_size_of(t) == t.max_response_size
is_local(t) == FALSE

----------------------------------------------------------------------------
(* Values the environment supplies *)

\* RpcService descriptors (opaque to the transport).
Services == { "EthMainnet", "EthSepolia" }

\* call_cycles arguments: zero, a small value, the largest u128.
CycleValues == { U128_ZERO, <<0, 0, 0, 0, 7>>, U128_MAX }

\* max_response_size arguments; 2000 is also an estimate of some packets.
SizeValues == { 0, 2000 }

\* Packets handed to request().
RequestPackets ==
    { Single(SerializedRequest("eth_chainId")),
      Single(SerializedRequest("eth_getTransactionByHash")),
      Single(SerializedRequest("eth_call")),
      Batch(<<SerializedRequest("eth_chainId"), SerializedRequest("eth_gasPrice")>>),
      Batch(<<SerializedRequest("eth_chainId"), SerializedRequest("eth_call")>>),
      Batch(<<SerializedRequest("eth_call"), SerializedRequest("eth_chainId")>>) }

\* Errors of the endpoint (RpcError of the canister interface) and their
\* Debug rendering.
RpcErrors ==
    { [variant |-> "ProviderError", detail |-> "TooFewCycles"],
      [variant |-> "HttpOutcallError", detail |-> "InvalidHttpJsonRpcResponse"] }

DebugFmt(rpc_error) == rpc_error.variant \o "(" \o rpc_error.detail \o ")"

\* CallResult<(RequestResult,)>
CallOk(request_result) == [ok |-> TRUE, val |-> request_result]
CallErr(code, message) == [ok |-> FALSE, err |-> <<code, message>>]
RequestResultOk(ok_result) == [variant |-> "Ok", ok_result |-> ok_result]
RequestResultErr(rpc_error) == [variant |-> "Err", rpc_error |-> rpc_error]

ValidSingle == "{\"jsonrpc\":\"2.0\",\"id\":0,\"result\":\"0x1\"}"
ValidBatch ==
    "[{\"jsonrpc\":\"2.0\",\"id\":0,\"result\":\"0x1\"},"
        \o "{\"jsonrpc\":\"2.0\",\"id\":1,\"error\":{\"code\":3,\"message\":\"reverted\"}}]"

OkPayloads == { ValidSingle, ValidBatch, "not valid json", "" }

Rejections ==
    { <<120, "out of cycles">>, <<4, "canister rejected the message">>, <<6, "">> }

CallResults ==
    { CallOk(RequestResultOk(s)) : s \in OkPayloads }
      \cup { CallOk(RequestResultErr(e)) : e \in RpcErrors }
      \cup { CallErr(r[1], r[2]) : r \in Rejections }

----------------------------------------------------------------------------
(* Results of request() *)

Ok(v) == [ok |-> TRUE, val |-> v]
Err(e) == [ok |-> FALSE, err |-> e]

ErrorPayload(code, message, data) ==
    [code |-> code, message |-> message, data |-> data]

ErrorResp(payload) == [variant |-> "ErrorResp", payload |-> payload]
ser_err(err) == [variant |-> "SerError", err |-> err]
deser_err(err, text) == [variant |-> "DeserError", err |-> err, text |-> text]

\* RequestPacket::serialize: a single request is its payload, a batch the
\* JSON array of its members' payloads.
RECURSIVE JoinRequests(_)
JoinRequests(reqs) ==
    IF Len(reqs) = 1 THEN reqs[1].request
    ELSE JoinRequests(SubSeq(reqs, 1, Len(reqs) - 1)) \o "," \o reqs[Len(reqs)].request

serialize(request_packet) ==
    IF request_packet.kind = "Single"
    THEN request_packet.reqs[1].request
    ELSE "[" \o JoinRequests(request_packet.reqs) \o "]"

\* serde_json::from_str::<ResponsePacket>: the envelopes it accepts among
\* OkPayloads, with the packet each decodes to; anything else is a parse error.
from_str(s) ==
    CASE s = ValidSingle ->
            Ok([kind |-> "Single",
                resps |-> <<[id |-> 0, success |-> TRUE, payload |-> "0x1"]>>])
      [] s = ValidBatch ->
            Ok([kind |-> "Batch",
                resps |-> <<[id |-> 0, success |-> TRUE, payload |-> "0x1"],
                            [id |-> 1, success |-> FALSE, payload |-> "reverted"]>>])
      [] s = "" -> Err("EOF while parsing a value at line 1 column 0")
      [] OTHER -> Err("expected ident at line 1 column 2")

----------------------------------------------------------------------------
(* request(): the synchronous part, lines 153-156 *)

\* Mutant: the override is ignored and the estimate always declared.
resolve_max_response_size_EstimateOnly(t, request_packet) ==
    estimate_max_response_size(request_packet)

\* self.max_response_size.unwrap_or(self.estimate_max_response_size(&request_packet))
resolve_max_response_size(t, request_packet) ==
    UnwrapOr(t.max_response_size, estimate_max_response_size(request_packet))

\* Mutant: the override is ignored and the default budget always attached.
resolve_call_cycles_AlwaysDefault(t) == DEFAULT_CALL_CYCLES

\* self.call_cycles.unwrap_or(DEFAULT_CALL_CYCLES)
resolve_call_cycles(t) == UnwrapOr(t.call_cycles, DEFAULT_CALL_CYCLES)

\* How often request() runs the estimator: the call is the argument of
\* unwrap_or, so it is evaluated before unwrap_or looks at the option.
estimator_calls(t) == 1

----------------------------------------------------------------------------
(* request(): the match on call_result, lines 170-187 *)

\* Mutant: a parse failure loses the offending string.
map_ok_result_NoText(ok_result) ==
    LET parsed == from_str(ok_result)
    IN  IF parsed.ok THEN Ok(parsed.val) ELSE Err(deser_err(parsed.err, parsed.err))

\* RequestResult::Ok(ok_result)
map_ok_result(ok_result) ==
    LET parsed == from_str(ok_result)
    IN  IF parsed.ok THEN Ok(parsed.val) ELSE Err(deser_err(parsed.err, ok_result))

\* Mutant: the endpoint's own error text becomes the message.
map_rpc_error_Detail(rpc_error) ==
    Err(ErrorResp(ErrorPayload(6, rpc_error.detail, None)))

\* RequestResult::Err(rpc_error)
map_rpc_error(rpc_error) ==
    Err(ErrorResp(ErrorPayload(6, DebugFmt(rpc_error), None)))

\* Mutant: a rejection is reported under the RPC-error code.
map_reject_Sentinel(err) ==
    Err(ErrorResp(ErrorPayload(6, err[2], None)))

\* Err(err); err.0 as i64 widens the reject code and keeps its value.
map_reject(err) ==
    Err(ErrorResp(ErrorPayload(err[1], err[2], None)))

\* Mutant: an endpoint error is dropped and an empty response returned.
map_call_result_Swallow(call_result) ==
    IF call_result.ok
    THEN IF call_result.val.variant = "Ok"
         THEN map_ok_result(call_result.val.ok_result)
         ELSE Ok([kind |-> "Batch", resps |-> <<>>])
    ELSE map_reject(call_result.err)

map_call_result(call_result) ==
    IF call_result.ok
    THEN IF call_result.val.variant = "Ok"
         THEN map_ok_result(call_result.val.ok_result)
         ELSE map_rpc_error(call_result.val.rpc_error)
    ELSE map_reject(call_result.err)

----------------------------------------------------------------------------
(* State *)

CallIds == 1..MaxCalls

\* A slot that holds no future.
IdleCall ==
    [pc |-> "idle",
     request_packet |-> NoPacket,
     rpc_service |-> "",              \* captured by the async block
     max_response_size |-> 0,         \* captured by the async block
     call_cycles |-> U128_ZERO,       \* captured by the async block
     at_call |-> with_config(IcpConfig_new("")),  \* the transport when request() ran
     estimated |-> 0,                 \* estimator runs during request()
     ser_failed |-> FALSE,            \* serialize() returned an error
     sent |-> <<>>,                   \* the calls made to the canister
     call_result |-> None,            \* what the awaited call returned
     result |-> None]                 \* the future's output

InitWith(services, cycles, sizes) ==
    /\ transport \in { with_config(c) : c \in Configs(services, cycles, sizes) }
    /\ calls = [i \in CallIds |-> IdleCall]
    /\ est_in = NoPacket
    /\ est_out = None

Init == InitWith(Services, CycleValues, SizeValues)

----------------------------------------------------------------------------
(* The setters *)

set_rpc_service(rpc_service) ==
    /\ transport' = [transport EXCEPT !.rpc_service = rpc_service]
    /\ UNCHANGED <<calls, est_in, est_out>>

set_call_cycles(call_cycles) ==
    /\ transport' = [transport EXCEPT !.call_cycles = Some(call_cycles)]
    /\ UNCHANGED <<calls, est_in, est_out>>

set_max_response_size(size) ==
    /\ transport' = [transport EXCEPT !.max_response_size = Some(size)]
    /\ UNCHANGED <<calls, est_in, est_out>>

----------------------------------------------------------------------------
(* request() and the future it returns *)

\* Service::call -> request(): reads the transport and builds the future;
\* nothing of the async block has run yet.
request(i, request_packet) ==
    /\ calls[i].pc \in {"idle", "done"}
    /\ calls' = [calls EXCEPT ![i] =
            [IdleCall EXCEPT
                !.pc = "created",
                !.request_packet = request_packet,
                !.rpc_service = transport.rpc_service,
                !.max_response_size =
                    resolve_max_response_size(transport, request_packet),
                !.call_cycles = resolve_call_cycles(transport),
                !.estimated = estimator_calls(transport),
                !.at_call = transport]]
    /\ UNCHANGED <<transport, est_in, est_out>>

\* Mutant: the arguments are read from the transport when the call is made.
call_args_Live(c) ==
    [rpc_service |-> transport.rpc_service,
     payload |-> serialize(c.request_packet),
     max_response_size |-> resolve_max_response_size(transport, c.request_packet),
     call_cycles |-> resolve_call_cycles(transport)]

\* The argument list of evm_rpc.request(..), lines 162-167.
call_args(c) ==
    [rpc_service |-> c.rpc_service,
     payload |-> serialize(c.request_packet),
     max_response_size |-> c.max_response_size,
     call_cycles |-> c.call_cycles]

\* First poll of the future: serialize, and on success issue the call and
\* suspend on it; a serialization error is the future's output.
Poll(i, ser_ok) ==
    /\ calls[i].pc = "created"
    /\ calls' = [calls EXCEPT ![i] =
            IF ser_ok
            THEN [@ EXCEPT !.pc = "awaiting",
                           !.sent = Append(@, call_args(calls[i]))]
            ELSE [@ EXCEPT !.pc = "done",
                           !.ser_failed = TRUE,
                           !.result = Some(Err(ser_err("serialization failed")))]]
    /\ UNCHANGED <<transport, est_in, est_out>>

\* Mutant: a rejected call is issued once more before its error is reported.
Complete_RetryOnReject(i, call_result) ==
    /\ calls[i].pc = "awaiting"
    /\ calls' = [calls EXCEPT ![i] =
            IF ~call_result.ok /\ Len(calls[i].sent) = 1
            THEN [@ EXCEPT !.sent = Append(@, call_args(calls[i]))]
            ELSE [@ EXCEPT !.pc = "done",
                           !.call_result = Some(call_result),
                           !.result = Some(map_call_result(call_result))]]
    /\ UNCHANGED <<transport, est_in, est_out>>

\* The awaited call returns call_result; the match maps it to the output.
Complete(i, call_result) ==
    /\ calls[i].pc = "awaiting"
    /\ calls' = [calls EXCEPT ![i] =
            [@ EXCEPT !.pc = "done",
                      !.call_result = Some(call_result),
                      !.result = Some(map_call_result(call_result))]]
    /\ UNCHANGED <<transport, est_in, est_out>>

\* The caller drops the future before it has produced its output.
Drop(i) ==
    /\ calls[i].pc \in {"created", "awaiting"}
    /\ calls' = [calls EXCEPT ![i] = IdleCall]
    /\ UNCHANGED <<transport, est_in, est_out>>

----------------------------------------------------------------------------
(* Specification: one transport, one future at a time, all input values *)

Next ==
    \/ \E s \in Services : set_rpc_service(s)
    \/ \E c \in CycleValues : set_call_cycles(c)
    \/ \E m \in SizeValues : set_max_response_size(m)
    \/ \E p \in RequestPackets : request(1, p)
    \/ \E ser_ok \in BOOLEAN : Poll(1, ser_ok)
    \/ \E r \in CallResults : Complete(1, r)
    \/ Drop(1)

Spec == Init /\ [][Next]_vars

----------------------------------------------------------------------------
(* Specification: several futures of one transport alive at once, setters  *)
(* interleaved with them; fewer input values                               *)

ConcCycleValues == { <<0, 0, 0, 0, 7>> }
ConcSizeValues == { 0 }
ConcPackets ==
    { Single(SerializedRequest("eth_chainId")),
      Batch(<<SerializedRequest("eth_chainId"), SerializedRequest("eth_call")>>) }
ConcCallResults == { CallOk(RequestResultOk(ValidSingle)) }

InitConc == InitWith(Services, ConcCycleValues, ConcSizeValues)

NextConc ==
    \/ \E s \in Services : set_rpc_service(s)
    \/ \E c \in ConcCycleValues : set_call_cycles(c)
    \/ \E m \in ConcSizeValues : set_max_response_size(m)
    \/ \E i \in CallIds, p \in ConcPackets : request(i, p)
    \/ \E i \in CallIds, ser_ok \in BOOLEAN : Poll(i, ser_ok)
    \/ \E i \in CallIds, r \in ConcCallResults : Complete(i, r)
    \/ \E i \in CallIds : Drop(i)

SpecConc == InitConc /\ [][NextConc]_vars

----------------------------------------------------------------------------
(* Specification: the estimator alone, applied to every packet of Packets *)

InitEst ==
    /\ transport = with_config(IcpConfig_new("EthMainnet"))
    /\ calls = [i \in CallIds |-> IdleCall]
    /\ est_in \in Packets
    /\ est_out = None

Estimate ==
    /\ est_out = None
    /\ est_out' = Some(estimate_max_response_size(est_in))
    /\ UNCHANGED <<transport, calls, est_in>>

NextEst == Estimate

SpecEst == InitEst /\ [][NextEst]_vars

----------------------------------------------------------------------------
(* Properties *)

\* The argument lists of the calls a future has made, with the future.
SentCalls == { <<i, k>> \in CallIds \X (1..2) : k <= Len(calls[i].sent) }

Finished(i) == calls[i].pc = "done"

\* C1: the max_response_bytes of every call made equals the override of
\* the transport request() was invoked on when it had one, and the
\* estimate of the packet when it had none.
C1_CapIsOverrideOrEstimate ==
    \A ik \in SentCalls :
        LET c == calls[ik[1]]
            a == c.sent[ik[2]]
        IN  IF c.at_call.max_response_size.some
            THEN a.max_response_size = c.at_call.max_response_size.val
            ELSE a.max_response_size = estimate_max_response_size(c.request_packet)

\* A batch whose estimate is 6000 went out with the override 0.
C1_Witness ==
    \E ik \in SentCalls :
        LET c == calls[ik[1]]
        IN  /\ c.at_call.max_response_size = Some(0)
            /\ c.request_packet.kind = "Batch"
            /\ estimate_max_response_size(c.request_packet) = 6000
            /\ c.sent[ik[2]].max_response_size = 0

\* C2: when request() is invoked on a transport with a response-size
\* override, the estimator is not run.
C2_EstimatorNotRunWithOverride ==
    \A i \in CallIds :
        (calls[i].pc # "idle" /\ calls[i].at_call.max_response_size.some)
            => calls[i].estimated = 0

\* C3: the estimate is the tier of the method (1000 for the fifteen small
\* methods, 2000 for the three medium ones, 5000 otherwise), summed over a
\* batch; every reordering of a batch has the same estimate.
C3_SmallMethods ==
    { "eth_blockNumber", "eth_getBalance", "eth_chainId", "eth_estimateGas",
      "eth_gasPrice", "eth_getBlockTransactionCountByHash",
      "eth_getBlockTransactionCountByNumber", "eth_getCode", "eth_getProof",
      "eth_getStorageAt", "eth_getTransactionCount",
      "eth_getUncleCountByBlockHash", "eth_getUncleCountByBlockNumber",
      "eth_maxPriorityFeePerGas", "eth_protocolVersion" }

C3_MediumMethods ==
    { "eth_feeHistory", "eth_getTransactionByBlockHashAndIndex",
      "eth_getTransactionByHash" }

C3_Tier(m) ==
    IF m \in C3_SmallMethods THEN 1000
    ELSE IF m \in C3_MediumMethods THEN 2000 ELSE 5000

RECURSIVE C3_Sum(_)
C3_Sum(reqs) ==
    IF reqs = <<>> THEN 0 ELSE C3_Tier(Head(reqs).method) + C3_Sum(Tail(reqs))

C3_Reorderings(reqs) ==
    { [k \in DOMAIN reqs |-> reqs[f[k]]] : f \in Permutations(DOMAIN reqs) }

C3_EstimateIsTierSum ==
    est_out.some =>
        /\ Cardinality(C3_SmallMethods) = 15
        /\ est_in.kind = "Single" => est_out.val = C3_Tier(est_in.reqs[1].method)
        /\ est_in.kind = "Batch" =>
              /\ est_out.val = C3_Sum(est_in.reqs)
              /\ \A r \in C3_Reorderings(est_in.reqs) :
                    estimate_max_response_size(Batch(r)) = est_out.val

\* The batch (unknown, small) was estimated at 6000.
C3_Witness ==
    /\ est_out = Some(6000)
    /\ est_in.kind = "Batch"
    /\ Len(est_in.reqs) = 2
    /\ est_in.reqs[1].method = "eth_call"
    /\ est_in.reqs[2].method = "eth_getBalance"

\* C4: a future makes at most one call; when it has produced its output it
\* has made none if serialization failed and exactly one otherwise.
C4_ExactlyOneCall ==
    \A i \in CallIds :
        /\ Len(calls[i].sent) <= 1
        /\ Finished(i) =>
              /\ calls[i].ser_failed <=> calls[i].result.val = Err(ser_err("serialization failed"))
              /\ Len(calls[i].sent) = (IF calls[i].ser_failed THEN 0 ELSE 1)

\* A rejected call has ended the future with that one call made.
C4_Witness ==
    \E i \in CallIds :
        /\ Finished(i)
        /\ calls[i].call_result.some
        /\ ~calls[i].call_result.val.ok
        /\ Len(calls[i].sent) = 1

\* C5: the target, cap and budget of every call made are those of the
\* transport as it was when request() was invoked; a step of one future
\* changes no other future and not the transport, and a setter changes no
\* future.
C5_ArgsFromSnapshot ==
    \A ik \in SentCalls :
        LET c == calls[ik[1]]
            a == c.sent[ik[2]]
        IN  /\ a.rpc_service = c.at_call.rpc_service
            /\ a.max_response_size =
                  resolve_max_response_size(c.at_call, c.request_packet)
            /\ a.call_cycles = resolve_call_cycles(c.at_call)

C5_StepsIndependent ==
    /\ \A i, j \in CallIds :
          (i # j /\ calls'[i] # calls[i]) => calls'[j] = calls[j]
    /\ transport' # transport => calls' = calls
    /\ calls' # calls => transport' = transport

C5_InFlightSelfContained == []C5_ArgsFromSnapshot /\ [][C5_StepsIndependent]_vars

\* A call went out after all three fields of the transport were changed
\* behind the future's back, while a second future was awaiting its call.
C5_Witness ==
    \E i, j \in CallIds :
        /\ i # j
        /\ Len(calls[i].sent) = 1
        /\ calls[j].pc = "awaiting"
        /\ calls[i].at_call.rpc_service # transport.rpc_service
        /\ calls[i].at_call.call_cycles # transport.call_cycles
        /\ calls[i].at_call.max_response_size # transport.max_response_size
        /\ calls[i].sent[1].rpc_service # transport.rpc_service

\* C6: the budget of every call made is 60,000,000,000 when the transport
\* had no call_cycles override at the invocation and the override otherwise.
C6_BudgetIsOverrideOrDefault ==
    \A ik \in SentCalls :
        LET c == calls[ik[1]]
            a == c.sent[ik[2]]
        IN  IF c.at_call.call_cycles.some
            THEN a.call_cycles = c.at_call.call_cycles.val
            ELSE a.call_cycles = <<0, 0, 0, 60, 0>>

\* A call went out with the override 0 as its budget.
C6_Witness ==
    \E ik \in SentCalls :
        /\ calls[ik[1]].at_call.call_cycles = Some(U128_ZERO)
        /\ calls[ik[1]].sent[ik[2]].call_cycles = U128_ZERO

\* C7: a call rejected with (code, message) ends the future with an error
\* response of that code and that message and no data.
C7_RejectionVerbatim ==
    \A i \in CallIds :
        (Finished(i) /\ calls[i].call_result.some /\ ~calls[i].call_result.val.ok) =>
            LET err == calls[i].call_result.val.err
            IN  calls[i].result =
                    Some(Err([variant |-> "ErrorResp",
                              payload |-> [code |-> err[1], message |-> err[2],
                                           data |-> None]]))

\* (120, "out of cycles") came back as code 120, message "out of cycles".
C7_Witness ==
    \E i \in CallIds :
        /\ Finished(i)
        /\ calls[i].call_result = Some(CallErr(120, "out of cycles"))
        /\ ~calls[i].result.val.ok
        /\ calls[i].result.val.err.payload.code = 120
        /\ calls[i].result.val.err.payload.message = "out of cycles"

\* C8: an error returned by the endpoint ends the future with an error
\* response of code 6, the Debug text of the error as message and no data.
C8_RpcErrorSentinel ==
    \A i \in CallIds :
        (/\ Finished(i)
         /\ calls[i].call_result.some
         /\ calls[i].call_result.val.ok
         /\ calls[i].call_result.val.val.variant = "Err") =>
            calls[i].result =
                Some(Err([variant |-> "ErrorResp",
                          payload |-> [code |-> 6,
                                       message |->
                                          DebugFmt(calls[i].call_result.val.val.rpc_error),
                                       data |-> None]]))

\* The endpoint's TooFewCycles error came back under code 6.
C8_Witness ==
    \E i \in CallIds :
        /\ Finished(i)
        /\ calls[i].call_result =
              Some(CallOk(RequestResultErr(
                  [variant |-> "ProviderError", detail |-> "TooFewCycles"])))
        /\ calls[i].result.val.err.payload.message = "ProviderError(TooFewCycles)"

\* C9: a success payload s ends the future with the decoded packet when s
\* parses, and with a decoding error whose text is s when it does not.
C9_DecodeOrRawText ==
    \A i \in CallIds :
        (/\ Finished(i)
         /\ calls[i].call_result.some
         /\ calls[i].call_result.val.ok
         /\ calls[i].call_result.val.val.variant = "Ok") =>
            LET s == calls[i].call_result.val.val.ok_result
                r == calls[i].result.val
            IN  IF from_str(s).ok
                THEN r.ok /\ r.val = from_str(s).val
                ELSE /\ ~r.ok
                     /\ r.err.variant = "DeserError"
                     /\ r.err.text = s

\* "not valid json" came back inside a decoding error.
C9_Witness ==
    \E i \in CallIds :
        /\ Finished(i)
        /\ calls[i].call_result = Some(CallOk(RequestResultOk("not valid json")))
        /\ calls[i].result.val.err.text = "not valid json"

\* C10: the output of a future is fixed by the stage it reached: an
\* encoding error (no call made), a mechanism rejection, an endpoint error,
\* a decoding error or a decoded response; it is a success only in the last.
C10_Stage(c) ==
    IF c.ser_failed THEN "encoding"
    ELSE IF ~c.call_result.val.ok THEN "mechanism"
    ELSE IF c.call_result.val.val.variant = "Err" THEN "application"
    ELSE IF from_str(c.call_result.val.val.ok_result).ok THEN "response"
    ELSE "decoding"

C10_OutcomeByStage ==
    \A i \in CallIds :
        Finished(i) =>
            LET c == calls[i]
                r == c.result.val
                stage == C10_Stage(c)
            IN  /\ c.result.some
                /\ c.ser_failed <=> ~c.call_result.some
                /\ r.ok <=> stage = "response"
                /\ stage = "encoding" <=> (~r.ok /\ r.err.variant = "SerError")
                /\ stage = "decoding" <=> (~r.ok /\ r.err.variant = "DeserError")
                /\ stage \in {"mechanism", "application"} <=>
                      (~r.ok /\ r.err.variant = "ErrorResp")
                /\ stage = "encoding" => c.sent = <<>>
                /\ stage = "application" => r.err.payload.code = 6

\* An endpoint error has ended a future with an error response.
C10_Witness ==
    \E i \in CallIds :
        /\ Finished(i)
        /\ ~calls[i].ser_failed
        /\ C10_Stage(calls[i]) = "application"
        /\ ~calls[i].result.val.ok

=============================================================================
